---- MODULE Spec2Model ----
(***************************************************************************)
(* Model of backend/utils/parse_simplify.py: the durable JSON store        *)
(* (JSONFile), the location resolver (AddCoordinates), the status and      *)
(* salary normalisers (StatusEvents, ProcessSalary), the orchestrators     *)
(* (main, main_without_coordinates, add_coordinates_to_existing) and the   *)
(* /refresh handler of backend/routers/simplify.py that calls them.        *)
(*                                                                         *)
(* Strings are sequences of tokens.  A token is a word ("NY", "more",      *)
(* "Remote"), one blank (" ") or one punctuation character ("|", ";",      *)
(* "bullet").  Words contain no blank and no delimiter character, so       *)
(* substring tests, split, strip and endswith act on token sequences       *)
(* exactly as the Python operations act on the characters.                 *)
(***************************************************************************)
EXTENDS Integers, Sequences, FiniteSets, TLC

VARIABLES
    pc,             \* position of the single-threaded caller
    locations,      \* argument of get_all_locations
    cleaned,        \* result of get_all_locations
    data,           \* JSONFile.data of the batch being processed
    raised,         \* exception that escaped the current invocation
    rawFile,        \* the raw record file (from_path)
    parsedFile,     \* the parsed record file (to_path)
    location_cache, \* local of AddCoordinates.process
    item_idx,       \* index of the record the process loop is at
    cands,          \* locations of the current record
    cand_idx,       \* index of the candidate the inner loop is at
    errors,         \* local list errors of AddCoordinates.process
    geoLog,         \* history: what happened to each candidate
    dir,            \* directory: name -> inode of utils/locations.json(.tmp)
    inodes,         \* inode -> file content (sequence of chunks)
    cacheData,      \* LOCATION_CACHE.data
    tpc,            \* position of each thread that uses LOCATION_CACHE
    tfd,            \* inode each thread has open for writing (0: none)
    toff,           \* write offset of each thread's open file
    tdoc,           \* document each thread is dumping
    tcache,         \* location_cache local of each concurrent run
    saveFailed,     \* threads whose save call raised
    loaded,         \* what a load after a save returned
    atStart,        \* history: parsed.json and the cache file before the call
    caller,         \* the entry point whose call is running
    ipc,            \* position of each /refresh invocation
    idata           \* JSONFile.data of each invocation's background task

locVars == <<locations, cleaned>>
batchVars == <<data, raised>>
fileVars == <<rawFile, parsedFile>>
procVars == <<location_cache, item_idx, cands, cand_idx, errors, geoLog>>
storeVars == <<dir, inodes, cacheData>>
threadVars == <<tpc, tfd, toff, tdoc, tcache, saveFailed>>
moreVars == <<loaded, atStart, caller, ipc, idata>>
vars ==
    <<pc, locVars, batchVars, fileVars, procVars, storeVars, threadVars, moreVars>>

(***************************************************************************)
(* Python string operations on token sequences                             *)
(***************************************************************************)
Blank == " "

\* str.lower(): the words that differ from their lower-case form
LowerTok(t) ==
    IF t \in {"Remote", "REMOTE", "remote"} THEN "remote" ELSE t

Lower(s) ==
    [i \in 1..Len(s) |-> LowerTok(s[i])]

\* sub in s
Contains(s, sub) ==
    \E i \in 1..(Len(s) - Len(sub) + 1) : SubSeq(s, i, i + Len(sub) - 1) = sub

\* s.find(sub) + 1, 0 when absent
Find(s, sub) ==
    IF Contains(s, sub)
    THEN CHOOSE i \in 1..(Len(s) - Len(sub) + 1) :
            /\ SubSeq(s, i, i + Len(sub) - 1) = sub
            /\ \A j \in 1..(i - 1) : SubSeq(s, j, j + Len(sub) - 1) # sub
    ELSE 0

RECURSIVE Split(_, _)
\* s.split(sep): cut at every non-overlapping occurrence, left to right
Split(s, sep) ==
    IF Find(s, sep) = 0
    THEN <<s>>
    ELSE <<SubSeq(s, 1, Find(s, sep) - 1)>>
         \o Split(SubSeq(s, Find(s, sep) + Len(sep), Len(s)), sep)

RECURSIVE LStrip(_)
LStrip(s) ==
    IF s # <<>> /\ Head(s) = Blank THEN LStrip(Tail(s)) ELSE s

RECURSIVE RStrip(_)
RStrip(s) ==
    IF s # <<>> /\ s[Len(s)] = Blank THEN RStrip(SubSeq(s, 1, Len(s) - 1)) ELSE s

\* s.strip()
Strip(s) ==
    RStrip(LStrip(s))

\* s.endswith(suf)
EndsWith(s, suf) ==
    /\ Len(s) >= Len(suf)
    /\ SubSeq(s, Len(s) - Len(suf) + 1, Len(s)) = suf

\* list.remove(x): delete the first element equal to x
RemoveFirst(list, x) ==
    LET k == CHOOSE i \in 1..Len(list) :
                 list[i] = x /\ \A j \in 1..(i - 1) : list[j] # x
    IN  SubSeq(list, 1, k - 1) \o SubSeq(list, k + 1, Len(list))

(***************************************************************************)
(* AddCoordinates.get_all_locations                                        *)
(***************************************************************************)
splitter ==
    << <<"|">>, <<";">>, <<"bullet">>, <<" ", "and", " ">>, <<" ", "or", " ">> >>

MoreSuffix == <<" ", "more">>

\* for spli in splitter: if spli in locations: ... break
FirstSplit(s) ==
    IF \E k \in 1..Len(splitter) : Contains(s, splitter[k])
    THEN LET k == CHOOSE k \in 1..Len(splitter) :
                     /\ Contains(s, splitter[k])
                     /\ \A j \in 1..(k - 1) : ~Contains(s, splitter[j])
         IN  Split(s, splitter[k])
    ELSE <<>>

RECURSIVE RemoveWhileIterating(_, _)
\* for i in cleaned_locations: if i.endswith(" more"): cleaned_locations.remove(i)
\* the list iterator is an index into the list that is being shortened
RemoveWhileIterating(list, i) ==
    IF i > Len(list)
    THEN list
    ELSE IF EndsWith(list[i], MoreSuffix)
         THEN RemoveWhileIterating(RemoveFirst(list, list[i]), i + 1)
         ELSE RemoveWhileIterating(list, i + 1)

get_all_locations(s) ==
    LET split == FirstSplit(s)
        stripped == [i \in 1..Len(split) |-> Strip(split[i])]
        kept == RemoveWhileIterating(stripped, 1)
    IN  IF kept = <<>> THEN <<s>> ELSE kept

(***************************************************************************)
(* JSON values                                                             *)
(***************************************************************************)
\* an optional number: None is the empty tuple, the number n is <<n>>
None == <<>>

Num(n) == <<n>>

\* truth value of None or a number: None and 0 are false
Truthy(x) ==
    x # None /\ x[1] # 0

\* a status value is an integer code or a string
IntStatus(n) == [kind |-> "int", n |-> n, s |-> ""]

StrStatus(s) == [kind |-> "str", n |-> 0, s |-> s]

\* a record of the tracker; coordinates and salary are the output fields
MkRecord(id, loc, events, low, high, period) ==
    [id |-> id, job_posting_location |-> loc, status_events |-> events,
     salary_low |-> low, salary_high |-> high, salary_period |-> period,
     coordinates |-> <<>>, salary |-> None]

(***************************************************************************)
(* StatusEvents.process                                                    *)
(***************************************************************************)
\* status["status"] == code
StatusIs(v, code) ==
    v.kind = "int" /\ v.n = code

\* the table with the entry for 11 left out
MapStatus_NoScreen(v) ==
    IF StatusIs(v, 1) THEN StrStatus("saved")
    ELSE IF StatusIs(v, 2) THEN StrStatus("applied")
    ELSE IF StatusIs(v, 23) THEN StrStatus("rejected")
    ELSE v

MapStatus(v) ==
    IF StatusIs(v, 1) THEN StrStatus("saved")
    ELSE IF StatusIs(v, 2) THEN StrStatus("applied")
    ELSE IF StatusIs(v, 11) THEN StrStatus("screen")
    ELSE IF StatusIs(v, 23) THEN StrStatus("rejected")
    ELSE v

\* a table whose entry for 1 is the code 2 instead of a label
StatusEventsItem_Chained(item) ==
    [item EXCEPT !.status_events =
        [j \in 1..Len(@) |->
            [@[j] EXCEPT !.status =
                IF StatusIs(@, 1) THEN IntStatus(2) ELSE MapStatus(@)]]]

StatusEventsItem(item) ==
    [item EXCEPT !.status_events =
        [j \in 1..Len(@) |-> [@[j] EXCEPT !.status = MapStatus(@)]]]

StatusEventsProcess(d) ==
    [i \in 1..Len(d) |-> StatusEventsItem(d[i])]

(***************************************************************************)
(* ProcessSalary.process                                                   *)
(***************************************************************************)
\* hour_map: the divisor of each period as a fraction <<numerator, denominator>>
\* (40, 40*4.33 = 173.2, 40*52.142 = 2085.68)
hour_map ==
    (2 :> <<40, 1>>) @@ (3 :> <<1732, 10>>) @@ (4 :> <<208568, 100>>)

\* sal // f
FloorDivBy(sal, f) ==
    (sal * f[2]) \div f[1]

\* the base figure computed before the period conversion
BaseSalary(item) ==
    IF Truthy(item.salary_low) /\ Truthy(item.salary_high)
    THEN Num((item.salary_low[1] + item.salary_high[1]) \div 2)
    ELSE IF Truthy(item.salary_low) \/ Truthy(item.salary_high)
         THEN (IF Truthy(item.salary_low) THEN item.salary_low ELSE item.salary_high)
         ELSE None

\* item["salary_period"] is read first; the conversion looks the period up
\* only for a truthy figure and a period > 1
SalaryLookupFails(item) ==
    \/ "salary_period" \notin DOMAIN item
    \/ /\ Truthy(BaseSalary(item))
       /\ item.salary_period > 1
       /\ item.salary_period \notin DOMAIN hour_map

ProcessSalaryItem(item) ==
    LET sal == BaseSalary(item)
    IN  IF Truthy(sal) /\ item.salary_period > 1
        THEN [item EXCEPT !.salary =
                 Num(FloorDivBy(sal[1], hour_map[item.salary_period]))]
        ELSE [item EXCEPT !.salary = sal]

RECURSIVE ProcessSalaryLoop(_, _)
\* the loop stops at the first item whose lookup raises KeyError; the items
\* before it keep the salary already stored in them
ProcessSalaryLoop(d, i) ==
    IF i > Len(d)
    THEN [data |-> d, raised |-> "none"]
    ELSE IF SalaryLookupFails(d[i])
         THEN [data |-> d, raised |-> "KeyError"]
         ELSE ProcessSalaryLoop([d EXCEPT ![i] = ProcessSalaryItem(d[i])], i + 1)

ProcessSalaryProcess(d) ==
    ProcessSalaryLoop(d, 1)

(***************************************************************************)
(* The location cache and AddCoordinates.get_coord                         *)
(***************************************************************************)
\* a JSON document of utils/locations.json: the empty array that
\* JSONFile.load creates, or an object mapping location -> point
EmptyList == [isDict |-> FALSE, map |-> <<>>]

Dict(m) == [isDict |-> TRUE, map |-> m]

\* truth value of a document: [] and {} are false
DocTruthy(doc) ==
    DOMAIN doc.map # {}

RemotePoint == <<"remote", "remote", <<"remote">>>>

\* [loc.latitude, loc.longitude, loc.address] of the geocoder's match
GeoPoint(loc) == <<"lat", "lon", loc>>

\* what one geolocator.geocode call does: a match, None, or an exception
GeoOutcomes == {"match", "nomatch", "raise"}

Put(m, k, v) ==
    [x \in DOMAIN m \cup {k} |-> IF x = k THEN v ELSE m[x]]

\* time.sleep(1), then geolocator.geocode(location)
CallEvents == <<"sleep", "geocode">>

\* get_coord without the assert: a geocoder that finds nothing yields a
\* point instead of an exception
get_coord_NoAssert(location, cache, geo) ==
    LET loc == Strip(location)
    IN  IF Contains(Lower(loc), <<"remote">>)
        THEN IF cache.isDict
             THEN [ok |-> TRUE, kind |-> "remote", called |-> FALSE,
                   events |-> <<>>,
                   cache |-> Dict(Put(cache.map, loc, RemotePoint)),
                   point |-> RemotePoint]
             ELSE [ok |-> FALSE, kind |-> "TypeError", called |-> FALSE,
                   events |-> <<>>,
                   cache |-> cache, point |-> RemotePoint]
        ELSE IF ~cache.isDict
             THEN [ok |-> FALSE, kind |-> "AttributeError", called |-> FALSE,
                   events |-> <<>>,
                   cache |-> cache, point |-> RemotePoint]
             ELSE IF loc \in DOMAIN cache.map
                  THEN [ok |-> TRUE, kind |-> "hit", called |-> FALSE,
                        events |-> <<>>,
                        cache |-> cache, point |-> cache.map[loc]]
                  ELSE IF geo = "match"
                       THEN [ok |-> TRUE, kind |-> "match", called |-> TRUE,
                             events |-> CallEvents,
                             cache |-> Dict(Put(cache.map, loc, GeoPoint(loc))),
                             point |-> GeoPoint(loc)]
                       ELSE [ok |-> geo = "nomatch", kind |-> geo, called |-> TRUE,
                             events |-> CallEvents,
                             cache |-> cache, point |-> <<"none", "none", loc>>]

\* get_coord on one candidate: ok is FALSE when it raised.  On a cache that
\* is a list, location_cache[location] = ... raises TypeError and
\* location_cache.get raises AttributeError.
get_coord(location, cache, geo) ==
    LET loc == Strip(location)
    IN  IF Contains(Lower(loc), <<"remote">>)
        THEN IF cache.isDict
             THEN [ok |-> TRUE, kind |-> "remote", called |-> FALSE,
                   events |-> <<>>,
                   cache |-> Dict(Put(cache.map, loc, RemotePoint)),
                   point |-> RemotePoint]
             ELSE [ok |-> FALSE, kind |-> "TypeError", called |-> FALSE,
                   events |-> <<>>,
                   cache |-> cache, point |-> RemotePoint]
        ELSE IF ~cache.isDict
             THEN [ok |-> FALSE, kind |-> "AttributeError", called |-> FALSE,
                   events |-> <<>>,
                   cache |-> cache, point |-> RemotePoint]
             ELSE IF loc \in DOMAIN cache.map
                  THEN [ok |-> TRUE, kind |-> "hit", called |-> FALSE,
                        events |-> <<>>,
                        cache |-> cache, point |-> cache.map[loc]]
                  ELSE IF geo = "match"
                       THEN [ok |-> TRUE, kind |-> "match", called |-> TRUE,
                             events |-> CallEvents,
                             cache |-> Dict(Put(cache.map, loc, GeoPoint(loc))),
                             point |-> GeoPoint(loc)]
                       ELSE [ok |-> FALSE, kind |-> geo, called |-> TRUE,
                             events |-> CallEvents,
                             cache |-> cache, point |-> RemotePoint]

(***************************************************************************)
(* The file utils/locations.json: a directory entry for the file and one   *)
(* for its .tmp sibling, and the inodes they name.  json.dump writes a     *)
(* document in NumChunks pieces; json.load accepts only a whole document.  *)
(***************************************************************************)
NumChunks == 2

\* json.dump: the text of a document is a JSON array ([] is the only list
\* the cache ever is) or a JSON object, the set of its "key": value members
JsonDump(doc) ==
    [kind |-> IF doc.isDict THEN "object" ELSE "array",
     members |-> {<<k, doc.map[k]>> : k \in DOMAIN doc.map}]

\* json.load of a whole text: an object becomes a dict with one entry for
\* each member key
JsonLoad(text) ==
    [isDict |-> text.kind = "object",
     map |-> [k \in {p[1] : p \in text.members} |->
                 (CHOOSE p \in text.members : p[1] = k)[2]]]

Serialize(doc) ==
    [i \in 1..NumChunks |-> [doc |-> JsonDump(doc), part |-> i]]

\* json.load succeeds on this content
Complete(content) ==
    /\ Len(content) = NumChunks
    /\ \A i \in 1..NumChunks :
          content[i].part = i /\ content[i].doc = content[1].doc

Parse(content) ==
    JsonLoad(content[1].doc)

NoInode == 0

FreshInode(ino) ==
    CHOOSE i \in 1..(Cardinality(DOMAIN ino) + 1) :
        i \notin DOMAIN ino /\ \A j \in 1..(i - 1) : j \in DOMAIN ino

\* an inode lives as long as a directory entry or an open file names it
Collect(ino, d, fds) ==
    [i \in {j \in DOMAIN ino :
               j = d.target \/ j = d.tmp \/ \E t \in DOMAIN fds : fds[t] = j}
        |-> ino[i]]

TargetExists == dir.target # NoInode

TargetContent == inodes[dir.target]

\* the document a reader of utils/locations.json gets
CacheFileDoc == Parse(TargetContent)

(***************************************************************************)
(* Record files (raw.json, parsed.json) and JSONFile on them               *)
(***************************************************************************)
AbsentFile == [exists |-> FALSE, records |-> <<>>]

FileOf(recs) == [exists |-> TRUE, records |-> recs]

\* JSONFile.load: an absent file is created holding []
LoadFile(file) ==
    IF file.exists THEN file ELSE FileOf(<<>>)

\* JSONFile(path, auto_save=False).save(d): the constructor loads the file
\* into self.data; save writes d, or self.data when d is empty
SaveFile(file, d) ==
    FileOf(IF d # <<>> THEN d ELSE LoadFile(file).records)

(***************************************************************************)
(* Values the variables of a part hold while another part is examined      *)
(***************************************************************************)
Threads == {"run1", "run2", "auto"}

LocIdle == locations = <<>> /\ cleaned = <<>>

BatchIdle == data = <<>> /\ raised = "none"

FilesIdle == rawFile = AbsentFile /\ parsedFile = AbsentFile

ProcIdle ==
    /\ location_cache = EmptyList
    /\ item_idx = 0
    /\ cands = <<>>
    /\ cand_idx = 0
    /\ errors = <<>>
    /\ geoLog = <<>>

StoreIdle ==
    /\ dir = [target |-> NoInode, tmp |-> NoInode]
    /\ inodes = <<>>
    /\ cacheData = EmptyList

Invocations == {"older", "newer"}

MoreIdle ==
    /\ loaded = EmptyList
    /\ atStart = [parsed |-> AbsentFile, cache |-> EmptyList]
    /\ caller = "main"
    /\ ipc = [i \in Invocations |-> "off"]
    /\ idata = [i \in Invocations |-> <<>>]

ThreadsIdle ==
    /\ tpc = [t \in Threads |-> "off"]
    /\ tfd = [t \in Threads |-> NoInode]
    /\ toff = [t \in Threads |-> 0]
    /\ tdoc = [t \in Threads |-> EmptyList]
    /\ tcache = [t \in Threads |-> EmptyList]
    /\ saveFailed = {}

(***************************************************************************)
(* LOCATION_CACHE = JSONFile("utils/locations.json") at import             *)
(***************************************************************************)
\* JSONFile.__init__ / load on the cache file: an absent file is created
\* holding [], and self.data is what the file holds
ImportModule ==
    /\ UNCHANGED moreVars
    /\ pc = "import"
    /\ IF TargetExists
       THEN /\ cacheData' = CacheFileDoc
            /\ UNCHANGED <<dir, inodes>>
       ELSE /\ cacheData' = EmptyList
            /\ dir' = [dir EXCEPT !.target = FreshInode(inodes)]
            /\ inodes' = Put(inodes, FreshInode(inodes), Serialize(EmptyList))
    /\ pc' = "start"
    /\ UNCHANGED <<locVars, batchVars, fileVars, procVars, threadVars>>

\* a save that writes self.data whatever it is given
SaveWhole_KeepsOld(doc) ==
    LET written == cacheData
        id == FreshInode(inodes)
        d2 == [target |-> id, tmp |-> NoInode]
    IN  /\ cacheData' = written
        /\ dir' = d2
        /\ inodes' = Collect(Put(inodes, id, Serialize(written)), d2, tfd)

\* LOCATION_CACHE.save(doc) run without interruption: self.data is replaced
\* by a truthy doc, the document is written to the .tmp file and renamed
SaveWhole(doc) ==
    LET written == IF DocTruthy(doc) THEN doc ELSE cacheData
        id == FreshInode(inodes)
        d2 == [target |-> id, tmp |-> NoInode]
    IN  /\ cacheData' = written
        /\ dir' = d2
        /\ inodes' = Collect(Put(inodes, id, Serialize(written)), d2, tfd)

(***************************************************************************)
(* main(from_path, to_path), one action per step of the call               *)
(***************************************************************************)
\* a main that constructs the JSONFile of to_path before the passes
MainLoad_OpensDestination ==
    /\ UNCHANGED moreVars
    /\ pc = "start"
    /\ rawFile' = LoadFile(rawFile)
    /\ parsedFile' = LoadFile(parsedFile)
    /\ data' = LoadFile(rawFile).records
    /\ pc' = "proc_load"
    /\ UNCHANGED <<locVars, raised, procVars, storeVars, threadVars>>

\* data = JSONFile(from_path, auto_save=False)
MainLoad ==
    /\ UNCHANGED moreVars
    /\ pc = "start"
    /\ rawFile' = LoadFile(rawFile)
    /\ data' = LoadFile(rawFile).records
    /\ pc' = "proc_load"
    /\ UNCHANGED <<locVars, raised, parsedFile, procVars, storeVars, threadVars>>

\* AddCoordinates.process: location_cache = LOCATION_CACHE.load()
ProcLoad ==
    /\ UNCHANGED moreVars
    /\ pc = "proc_load"
    /\ location_cache' = CacheFileDoc
    /\ item_idx' = 1
    /\ errors' = <<>>
    /\ pc' = "item"
    /\ UNCHANGED <<locVars, batchVars, fileVars, cands, cand_idx, geoLog,
                   storeVars, threadVars>>

\* for item in self.input.data: the head of the outer loop.  A record
\* without the key job_posting_location raises KeyError outside the try of
\* the inner loop: it escapes main, and is caught and logged by
\* add_coordinates_to_existing.
ProcItem ==
    /\ UNCHANGED moreVars
    /\ pc = "item"
    /\ IF item_idx > Len(data)
       THEN /\ pc' = "proc_save"
            /\ UNCHANGED <<data, raised, cands, cand_idx>>
       ELSE IF "job_posting_location" \notin DOMAIN data[item_idx]
       THEN /\ raised' = "KeyError"
            /\ pc' = IF caller = "add_coordinates_to_existing"
                     THEN "p2_logged" ELSE "raised"
            /\ UNCHANGED <<data, cands, cand_idx>>
       ELSE /\ cands' = get_all_locations(data[item_idx].job_posting_location)
            /\ data' = [data EXCEPT ![item_idx].coordinates = <<>>]
            /\ cand_idx' = 1
            /\ pc' = "cand"
            /\ UNCHANGED raised
    /\ UNCHANGED <<locVars, fileVars, location_cache, item_idx, errors,
                   geoLog, storeVars, threadVars>>

\* a loop that hands get_coord an empty cache for every candidate
ProcCand_FreshCache ==
    /\ UNCHANGED moreVars
    /\ pc = "cand"
    /\ IF cand_idx > Len(cands)
       THEN /\ item_idx' = item_idx + 1
            /\ pc' = "item"
            /\ UNCHANGED <<data, location_cache, cand_idx, errors, geoLog>>
       ELSE \E geo \in GeoOutcomes :
              LET r == get_coord(cands[cand_idx], Dict(<<>>), geo)
              IN  /\ location_cache' = r.cache
                  /\ data' = IF r.ok
                             THEN [data EXCEPT ![item_idx].coordinates =
                                      Append(@, r.point)]
                             ELSE data
                  /\ errors' = IF r.ok THEN errors
                               ELSE Append(errors, cands[cand_idx])
                  /\ geoLog' = Append(geoLog,
                                 [item |-> item_idx, loc |-> cands[cand_idx],
                                  kind |-> r.kind, called |-> r.called,
                                  events |-> r.events])
                  /\ cand_idx' = cand_idx + 1
                  /\ UNCHANGED <<item_idx, pc>>
    /\ UNCHANGED <<locVars, raised, fileVars, cands, storeVars, threadVars>>

\* for loc in locations: try: append(get_coord(...)) except: errors.append(loc)
ProcCand ==
    /\ UNCHANGED moreVars
    /\ pc = "cand"
    /\ IF cand_idx > Len(cands)
       THEN /\ item_idx' = item_idx + 1
            /\ pc' = "item"
            /\ UNCHANGED <<data, location_cache, cand_idx, errors, geoLog>>
       ELSE \E geo \in GeoOutcomes :
              LET r == get_coord(cands[cand_idx], location_cache, geo)
              IN  /\ location_cache' = r.cache
                  /\ data' = IF r.ok
                             THEN [data EXCEPT ![item_idx].coordinates =
                                      Append(@, r.point)]
                             ELSE data
                  /\ errors' = IF r.ok THEN errors
                               ELSE Append(errors, cands[cand_idx])
                  /\ geoLog' = Append(geoLog,
                                 [item |-> item_idx, loc |-> cands[cand_idx],
                                  kind |-> r.kind, called |-> r.called,
                                  events |-> r.events])
                  /\ cand_idx' = cand_idx + 1
                  /\ UNCHANGED <<item_idx, pc>>
    /\ UNCHANGED <<locVars, raised, fileVars, cands, storeVars, threadVars>>

\* LOCATION_CACHE.save(location_cache)
ProcSave ==
    /\ UNCHANGED moreVars
    /\ pc = "proc_save"
    /\ SaveWhole(location_cache)
    /\ pc' = IF caller = "add_coordinates_to_existing" THEN "p2_save" ELSE "status"
    /\ UNCHANGED <<locVars, batchVars, fileVars, procVars, threadVars>>

\* StatusEvents(data)
MainStatus ==
    /\ UNCHANGED moreVars
    /\ pc = "status"
    /\ data' = StatusEventsProcess(data)
    /\ pc' = "salary"
    /\ UNCHANGED <<locVars, raised, fileVars, procVars, storeVars, threadVars>>

\* ProcessSalary(data): a KeyError escapes main
MainSalary ==
    /\ UNCHANGED moreVars
    /\ pc = "salary"
    /\ data' = ProcessSalaryProcess(data).data
    /\ raised' = ProcessSalaryProcess(data).raised
    /\ pc' = IF ProcessSalaryProcess(data).raised = "none" THEN "save" ELSE "raised"
    /\ UNCHANGED <<locVars, fileVars, procVars, storeVars, threadVars>>

\* JSONFile(to_path, auto_save=False).save(data.data)
MainSave ==
    /\ UNCHANGED moreVars
    /\ pc = "save"
    /\ parsedFile' = SaveFile(parsedFile, data)
    /\ pc' = "done"
    /\ UNCHANGED <<locVars, batchVars, rawFile, procVars, storeVars, threadVars>>

(***************************************************************************)
(* Bounds and the inputs drawn from them                                   *)
(***************************************************************************)
MaxPieces == 3

MaxEvents == 2

SalaryStep == 45

MaxSalaryK == 3

MaxPeriod == 5

MaxPipeBatch == 2

Pieces ==
    { <<"NY">>, <<" ", "Boston", " ">>, <<"2", " ", "more">> }

Delims == {splitter[k] : k \in 1..Len(splitter)}

RECURSIVE Joined(_)
\* the strings made of n pieces with a delimiter between neighbours
Joined(n) ==
    IF n = 1
    THEN Pieces
    ELSE {s \o d \o p : s \in Joined(n - 1), d \in Delims, p \in Pieces}

LocationInputs == UNION {Joined(n) : n \in 1..MaxPieces}

\* the codes of the table, and codes next to them that are not in it
StatusCodes == {0, 1, 2, 3, 11, 12, 23, 24}

StatusValues ==
    {IntStatus(n) : n \in StatusCodes} \cup {StrStatus("saved"), StrStatus("1")}

EventLists ==
    UNION {{[j \in 1..n |-> [status |-> f[j], timestamp |-> 100 + j]] :
               f \in [1..n -> StatusValues]} : n \in 0..MaxEvents}

SalaryValues ==
    {None} \cup {Num(k * SalaryStep) : k \in 0..MaxSalaryK}

OneEvent == <<[status |-> IntStatus(1), timestamp |-> 101]>>

StatusRecords ==
    {MkRecord(1, <<"NY">>, ev, Num(45), Num(90), 1) : ev \in EventLists}

SalaryRecords ==
    {MkRecord(1, <<"NY">>, OneEvent, low, high, period) :
        low \in SalaryValues, high \in SalaryValues, period \in 0..MaxPeriod}

\* the record that follows the varied one in a batch of two
SecondRecords ==
    { MkRecord(2, <<"NY">>,
               <<[status |-> IntStatus(2), timestamp |-> 201],
                 [status |-> IntStatus(5), timestamp |-> 202]>>,
               Num(90), Num(135), 2),
      MkRecord(2, <<"NY">>, OneEvent, Num(90), None, MaxPeriod) }

BatchesOf(recs) ==
    {<<r>> : r \in recs} \cup {<<r, r2>> : r \in recs, r2 \in SecondRecords}

PipeLocations ==
    { <<"Remote">>, <<"REMOTE">>, <<"NY">>, <<"NY", "|", "Boston">> }

PipeBatches ==
    UNION {{[i \in 1..n |-> MkRecord(i, f[i], OneEvent, Num(45), Num(90), 2)] :
               f \in [1..n -> PipeLocations]} : n \in 0..MaxPipeBatch}

\* what parsed.json holds from an earlier run
OldRecord ==
    [MkRecord(9, <<"NY">>, <<[status |-> StrStatus("applied"), timestamp |-> 901]>>,
              Num(45), None, 1)
        EXCEPT !.salary = Num(45)]

\* what utils/locations.json holds when an earlier process left one
CacheFilesAtStart ==
    { Dict(<<>>), Dict([k \in {<<"NY">>} |-> <<"lat0", "lon0", <<"NY">>>>]) }

(***************************************************************************)
(* Specifications                                                          *)
(***************************************************************************)
\* main on one raw file, from the import of the module on
Init ==
    /\ MoreIdle
    /\ pc = "import"
    /\ LocIdle /\ ProcIdle /\ ThreadsIdle
    /\ data = <<>> /\ raised = "none"
    /\ rawFile \in {AbsentFile} \cup {FileOf(b) : b \in PipeBatches}
    /\ parsedFile \in {AbsentFile, FileOf(<<>>), FileOf(<<OldRecord>>)}
    /\ cacheData = EmptyList
    /\ \/ StoreIdle
       \/ \E doc \in CacheFilesAtStart :
             /\ dir = [target |-> 1, tmp |-> NoInode]
             /\ inodes = Put(<<>>, 1, Serialize(doc))

Next ==
    \/ ImportModule
    \/ MainLoad
    \/ ProcLoad
    \/ ProcItem
    \/ ProcCand
    \/ ProcSave
    \/ MainStatus
    \/ MainSalary
    \/ MainSave

Spec == Init /\ [][Next]_vars

\* get_all_locations applied to one location string
GetAllLocations ==
    /\ UNCHANGED moreVars
    /\ pc = "loc"
    /\ cleaned' = get_all_locations(locations)
    /\ pc' = "loc_done"
    /\ UNCHANGED <<locations, batchVars, fileVars, procVars, storeVars, threadVars>>

InitLoc ==
    /\ MoreIdle
    /\ pc = "loc"
    /\ locations \in LocationInputs
    /\ cleaned = <<>>
    /\ BatchIdle /\ FilesIdle /\ ProcIdle /\ StoreIdle /\ ThreadsIdle

SpecLoc == InitLoc /\ [][GetAllLocations]_vars

\* the status pass applied to one batch
InitStatus ==
    /\ MoreIdle
    /\ pc = "status"
    /\ data \in BatchesOf(StatusRecords)
    /\ raised = "none"
    /\ LocIdle /\ FilesIdle /\ ProcIdle /\ StoreIdle /\ ThreadsIdle

SpecStatus == InitStatus /\ [][MainStatus]_vars

\* the salary pass applied to one batch
InitSalary ==
    /\ MoreIdle
    /\ pc = "salary"
    /\ data \in BatchesOf(SalaryRecords)
    /\ raised = "none"
    /\ LocIdle /\ FilesIdle /\ ProcIdle /\ StoreIdle /\ ThreadsIdle

SpecSalary == InitSalary /\ [][MainSalary]_vars

(***************************************************************************)
(* Concurrent use of LOCATION_CACHE: two enrichment runs (background tasks *)
(* of two users, each in its own worker thread) and the autosave thread.   *)
(* JSONFile.save is taken one system call at a time.                       *)
(***************************************************************************)
Runs == {"run1", "run2"}

\* the one candidate of the one record each run resolves
RunLocation == [t \in Runs |-> IF t = "run1" THEN <<"NY">> ELSE <<"Boston">>]

\* the argument of the save call a thread makes: the autosave thread calls
\* self.save(), whose data defaults to []
SaveArg(t) ==
    IF t \in Runs THEN tcache[t] ELSE EmptyList

\* bytes a write leaves between the old end of the file and its offset
Hole == [doc |-> JsonDump(EmptyList), part |-> 0]

WriteAt(content, pos, chunk) ==
    [i \in 1..(IF Len(content) > pos THEN Len(content) ELSE pos) |->
        IF i = pos THEN chunk
        ELSE IF i <= Len(content) THEN content[i] ELSE Hole]

\* AddCoordinates.process: location_cache = LOCATION_CACHE.load(); json.load
\* raises on a file that is not one whole document
RunLoad(t) ==
    /\ UNCHANGED moreVars
    /\ t \in Runs
    /\ tpc[t] = "load"
    /\ IF Complete(TargetContent)
       THEN /\ tcache' = [tcache EXCEPT ![t] = CacheFileDoc]
            /\ tpc' = [tpc EXCEPT ![t] = "enrich"]
       ELSE /\ tpc' = [tpc EXCEPT ![t] = "failed"]
            /\ UNCHANGED tcache
    /\ UNCHANGED <<pc, locVars, batchVars, fileVars, procVars, storeVars,
                   tfd, toff, tdoc, saveFailed>>

\* the loop of AddCoordinates.process over the run's record
RunEnrich(t) ==
    /\ UNCHANGED moreVars
    /\ t \in Runs
    /\ tpc[t] = "enrich"
    /\ \E geo \in GeoOutcomes :
          tcache' = [tcache EXCEPT ![t] = get_coord(RunLocation[t], @, geo).cache]
    /\ tpc' = [tpc EXCEPT ![t] = "set"]
    /\ UNCHANGED <<pc, locVars, batchVars, fileVars, procVars, storeVars,
                   tfd, toff, tdoc, saveFailed>>

\* start_auto_save: time.sleep(3) returns and self.save() is called
AutoWake ==
    /\ UNCHANGED moreVars
    /\ tpc["auto"] = "sleep"
    /\ tpc' = [tpc EXCEPT !["auto"] = "set"]
    /\ UNCHANGED <<pc, locVars, batchVars, fileVars, procVars, storeVars,
                   tfd, toff, tdoc, tcache, saveFailed>>

\* save: if data: self.data = data
SaveSet(t) ==
    /\ UNCHANGED moreVars
    /\ tpc[t] = "set"
    /\ cacheData' = IF DocTruthy(SaveArg(t)) THEN SaveArg(t) ELSE cacheData
    /\ tpc' = [tpc EXCEPT ![t] = "open"]
    /\ UNCHANGED <<pc, locVars, batchVars, fileVars, procVars, dir, inodes,
                   tfd, toff, tdoc, tcache, saveFailed>>

\* save: open(temp_path, "w") truncates the .tmp file or creates it
SaveOpen(t) ==
    /\ UNCHANGED moreVars
    /\ tpc[t] = "open"
    /\ LET id == IF dir.tmp # NoInode THEN dir.tmp ELSE FreshInode(inodes)
       IN  /\ dir' = [dir EXCEPT !.tmp = id]
           /\ inodes' = Put(inodes, id, <<>>)
           /\ tfd' = [tfd EXCEPT ![t] = id]
    /\ toff' = [toff EXCEPT ![t] = 0]
    /\ tpc' = [tpc EXCEPT ![t] = "write"]
    /\ UNCHANGED <<pc, locVars, batchVars, fileVars, procVars, cacheData,
                   tdoc, tcache, saveFailed>>

\* save: json.dump(data or self.data, f) writes the next piece at the
\* thread's offset; the file is closed after the last piece
SaveWrite(t) ==
    /\ UNCHANGED moreVars
    /\ tpc[t] = "write"
    /\ LET doc == IF toff[t] > 0 THEN tdoc[t]
                  ELSE IF DocTruthy(SaveArg(t)) THEN SaveArg(t) ELSE cacheData
           last == toff[t] + 1 = NumChunks
           fds == [tfd EXCEPT ![t] = IF last THEN NoInode ELSE @]
       IN  /\ tdoc' = [tdoc EXCEPT ![t] = doc]
           /\ tfd' = fds
           /\ inodes' = Collect([inodes EXCEPT ![tfd[t]] =
                                    WriteAt(@, toff[t] + 1,
                                            Serialize(doc)[toff[t] + 1])],
                                dir, fds)
           /\ toff' = [toff EXCEPT ![t] = @ + 1]
           /\ tpc' = [tpc EXCEPT ![t] = IF last THEN "replace" ELSE "write"]
    /\ UNCHANGED <<pc, locVars, batchVars, fileVars, procVars, dir, cacheData,
                   tcache, saveFailed>>

\* save: os.replace(temp_path, self.file_path) raises FileNotFoundError when
\* the .tmp entry is gone; the exception ends the run, or the autosave thread
SaveReplace(t) ==
    /\ UNCHANGED moreVars
    /\ tpc[t] = "replace"
    /\ IF dir.tmp = NoInode
       THEN /\ saveFailed' = saveFailed \cup {t}
            /\ tpc' = [tpc EXCEPT ![t] = IF t \in Runs THEN "failed" ELSE "dead"]
            /\ UNCHANGED <<dir, inodes>>
       ELSE /\ dir' = [target |-> dir.tmp, tmp |-> NoInode]
            /\ inodes' = Collect(inodes, [target |-> dir.tmp, tmp |-> NoInode], tfd)
            /\ tpc' = [tpc EXCEPT ![t] = IF t \in Runs THEN "done" ELSE "sleep"]
            /\ UNCHANGED saveFailed
    /\ UNCHANGED <<pc, locVars, batchVars, fileVars, procVars, cacheData,
                   tfd, toff, tdoc, tcache>>

\* the state after the import: the cache file holds one whole document ([]
\* when the import created the file), which is LOCATION_CACHE.data, the runs
\* are about to load it, autosave sleeps
InitStore ==
    /\ MoreIdle
    /\ pc = "store"
    /\ LocIdle /\ BatchIdle /\ FilesIdle /\ ProcIdle
    /\ \E doc \in CacheFilesAtStart \cup {EmptyList} :
          /\ dir = [target |-> 1, tmp |-> NoInode]
          /\ inodes = Put(<<>>, 1, Serialize(doc))
          /\ cacheData = doc
    /\ tpc = [t \in Threads |-> IF t \in Runs THEN "load" ELSE "sleep"]
    /\ tfd = [t \in Threads |-> NoInode]
    /\ toff = [t \in Threads |-> 0]
    /\ tdoc = [t \in Threads |-> EmptyList]
    /\ tcache = [t \in Threads |-> EmptyList]
    /\ saveFailed = {}

NextStore ==
    \/ \E t \in Runs : RunLoad(t)
    \/ \E t \in Runs : RunEnrich(t)
    \/ AutoWake
    \/ \E t \in Threads : SaveSet(t)
    \/ \E t \in Threads : SaveOpen(t)
    \/ \E t \in Threads : SaveWrite(t)
    \/ \E t \in Threads : SaveReplace(t)

SpecStore == InitStore /\ [][NextStore]_vars

(***************************************************************************)
(* Properties of the store under concurrency (SpecStore)                   *)
(***************************************************************************)
\* C1: save is an atomic replace: whatever saves and reads interleave, the
\* cache file always holds one whole document written by one save call (or
\* the earlier content), never an empty, truncated or mixed one, and no save
\* call fails because of another save.
C1_AtomicReplace ==
    /\ TargetExists
    /\ Complete(TargetContent)
    /\ saveFailed = {}

\* C2: the cache file only grows: a key the file holds is held, with the same
\* value, by the file ever after, whatever runs and autosave ticks interleave.
C2_CacheOnlyGrows ==
    [][(Complete(TargetContent) /\ Complete(TargetContent')) =>
          \A k \in DOMAIN CacheFileDoc.map :
             /\ k \in DOMAIN CacheFileDoc'.map
             /\ CacheFileDoc'.map[k] = CacheFileDoc.map[k]]_vars

(***************************************************************************)
(* Properties of the location resolver and of main (Spec)                  *)
(***************************************************************************)
\* the log entries of record i, in candidate order
LogOf(i) ==
    SelectSeq(geoLog, LAMBDA e : e.item = i)

Resolved(e) ==
    e.kind \in {"remote", "hit", "match"}

\* the point a resolved candidate contributes
PointOf(e) ==
    IF e.kind = "remote" THEN RemotePoint
    ELSE IF e.kind = "match" THEN GeoPoint(Strip(e.loc))
    ELSE location_cache.map[Strip(e.loc)]

ResolvedPoints(i) ==
    LET ok == SelectSeq(LogOf(i), Resolved)
    IN  [j \in 1..Len(ok) |-> PointOf(ok[j])]

\* record i has been through the inner loop
PastRecord(i) ==
    \/ pc \in {"item", "cand"} /\ i < item_idx
    \/ pc \in {"proc_save", "status", "salary", "save", "done"} /\ i <= Len(data)

\* C3: a candidate whose geocoding fails (no match, or the geocoder raises)
\* is skipped: no exception leaves the loop, every candidate of every record
\* is attempted, the coordinates of a record are exactly the points of its
\* resolved candidates in candidate order, and the failed ones are only
\* listed in errors.
C3_FailedCandidateSkipped ==
    /\ pc \in {"item", "cand", "proc_save"} => raised = "none"
    /\ pc = "proc_save" => item_idx = Len(data) + 1
    /\ \A i \in 1..Len(data) :
          PastRecord(i) =>
             /\ [j \in 1..Len(LogOf(i)) |-> LogOf(i)[j].loc]
                   = get_all_locations(data[i].job_posting_location)
             /\ data[i].coordinates = ResolvedPoints(i)
    /\ pc = "proc_save" =>
          errors = [j \in 1..Len(SelectSeq(geoLog, LAMBDA e : ~Resolved(e)))
                       |-> SelectSeq(geoLog, LAMBDA e : ~Resolved(e))[j].loc]

\* a run that finished although the geocoder failed on the first candidate
\* of a record and matched the second
C3_Witness ==
    /\ pc = "done"
    /\ \E i \in 1..Len(data) :
          /\ Len(LogOf(i)) = 2
          /\ LogOf(i)[1].kind \in {"nomatch", "raise"}
          /\ LogOf(i)[2].kind = "match"
          /\ data[i].coordinates = <<GeoPoint(LogOf(i)[2].loc)>>

\* C4: with a raw file holding [], main ends with parsed.json holding [],
\* whatever parsed.json held before.
C4_EmptyRawGivesEmptyParsed ==
    (pc = "done" /\ rawFile = FileOf(<<>>)) => parsedFile = FileOf(<<>>)

RemoteStrings == { <<"Remote">>, <<"REMOTE">>, <<"remote">> }

\* C5: a record whose location is "Remote" in any letter case gets exactly
\* the one entry ("remote","remote","remote"), the geocoder is not called
\* for it, and after the run the cache file maps the string to the sentinel,
\* whatever the cache file was before, also when it did not exist.
C5_RemoteSentinel ==
    pc \in {"status", "salary", "save", "done"} =>
       \A i \in 1..Len(data) :
          data[i].job_posting_location \in RemoteStrings =>
             /\ data[i].coordinates = <<RemotePoint>>
             /\ \A j \in 1..Len(LogOf(i)) : ~LogOf(i)[j].called
             /\ CacheFileDoc.isDict
             /\ data[i].job_posting_location \in DOMAIN CacheFileDoc.map
             /\ CacheFileDoc.map[data[i].job_posting_location] = RemotePoint

(***************************************************************************)
(* Properties of get_all_locations (SpecLoc)                               *)
(***************************************************************************)
\* the pieces the specification describes: split on the first delimiter of
\* the list that occurs, trim each piece
TrimmedPieces(s) ==
    LET split == IF FirstSplit(s) = <<>> THEN <<s>> ELSE FirstSplit(s)
    IN  [i \in 1..Len(split) |-> Strip(split[i])]

NotMore(piece) ==
    ~EndsWith(piece, MoreSuffix)

\* C6: the candidates are the trimmed pieces that do not end in " more", in
\* their order; when some piece does not end in " more", no candidate does.
C6_DropsEveryMore ==
    pc = "loc_done" =>
       LET kept == SelectSeq(TrimmedPieces(locations), NotMore)
       IN  kept # <<>> =>
              /\ FirstSplit(locations) # <<>> => cleaned = kept
              /\ \A j \in 1..Len(cleaned) : NotMore(cleaned[j])

(***************************************************************************)
(* Properties of the salary pass (SpecSalary)                              *)
(***************************************************************************)
\* C7: a record with salary_period = 1 and both salary_low = L and
\* salary_high = H present has salary = floor((L+H)/2) after the pass.
C7_AnnualAverage ==
    pc = "save" =>
       \A i \in 1..Len(data) :
          (/\ data[i].salary_period = 1
           /\ data[i].salary_low # None
           /\ data[i].salary_high # None)
          => data[i].salary
                = Num((data[i].salary_low[1] + data[i].salary_high[1]) \div 2)

\* the base salary as the specification derives it: the floor average when
\* both bounds are present, else the one that is present
DerivableBase(item) ==
    IF item.salary_low # None /\ item.salary_high # None
    THEN Num((item.salary_low[1] + item.salary_high[1]) \div 2)
    ELSE IF item.salary_low # None THEN item.salary_low ELSE item.salary_high

\* C8: a record with salary_period = 2 and a derivable base salary S has
\* salary = floor(S/40) after the pass.
C8_HourlyDividedBy40 ==
    pc = "save" =>
       \A i \in 1..Len(data) :
          (data[i].salary_period = 2 /\ DerivableBase(data[i]) # None)
          => data[i].salary = Num(DerivableBase(data[i])[1] \div 40)

\* C9: a batch with a record whose salary_period is none of 1, 2, 3, 4 makes
\* the pass raise, whatever the record's salary_low and salary_high are.
C9_UnknownPeriodRaises ==
    (pc \in {"save", "raised"}
       /\ \E i \in 1..Len(data) : data[i].salary_period \notin 1..4)
    => pc = "raised"

(***************************************************************************)
(* Properties of the status pass (SpecStatus)                              *)
(***************************************************************************)
KnownCodes == {1, 2, 11, 23}

\* the status pass took data to after
StatusMapped(before, after) ==
    /\ Len(after) = Len(before)
    /\ \A i \in 1..Len(before) :
          /\ [after[i] EXCEPT !.status_events = <<>>]
                = [before[i] EXCEPT !.status_events = <<>>]
          /\ Len(after[i].status_events) = Len(before[i].status_events)
          /\ \A j \in 1..Len(before[i].status_events) :
                LET old == before[i].status_events[j]
                    new == after[i].status_events[j]
                IN  /\ [new EXCEPT !.status = old.status] = old
                    /\ old.status = IntStatus(1) => new.status = StrStatus("saved")
                    /\ old.status = IntStatus(2) => new.status = StrStatus("applied")
                    /\ old.status = IntStatus(11) => new.status = StrStatus("screen")
                    /\ old.status = IntStatus(23) => new.status = StrStatus("rejected")
                    /\ old.status \notin {IntStatus(c) : c \in KnownCodes}
                          => new.status = old.status

\* C10: the status pass maps 1 to "saved", 2 to "applied", 11 to "screen"
\* and 23 to "rejected" in every event of every record, leaves every other
\* status value as it was, and changes no other field.
C10_StatusTable ==
    [][(pc = "status" /\ pc' = "salary") => StatusMapped(data, data')]_vars

\* a batch after the pass in which 11 became "screen", 23 became "rejected"
\* and the unknown code 5 stayed
C10_Witness ==
    /\ pc = "salary"
    /\ Len(data) = 2
    /\ data[1].status_events
          = <<[status |-> StrStatus("screen"), timestamp |-> 101],
              [status |-> StrStatus("rejected"), timestamp |-> 102]>>
    /\ data[2].status_events[2].status = IntStatus(5)

(***************************************************************************)
(* The status pass run again on its own output                             *)
(***************************************************************************)
\* StatusEvents(data) constructed a second time on the same JSONFile
StatusAgain ==
    /\ pc = "salary"
    /\ data' = StatusEventsProcess(data)
    /\ pc' = "status_again"
    /\ UNCHANGED <<raised, locVars, fileVars, procVars, storeVars, threadVars,
                   moreVars>>

SpecStatusTwice == InitStatus /\ [][MainStatus \/ StatusAgain]_vars

\* the status values of a batch, record by record and event by event
StatusFields(d) ==
    [i \in 1..Len(d) |->
        [j \in 1..Len(d[i].status_events) |-> d[i].status_events[j].status]]

\* C11: the status pass is idempotent: run a second time on the output of
\* the first run, it changes no status field, whatever known and unknown
\* codes the batch held.
C11_StatusIdempotent ==
    [][(pc = "salary" /\ pc' = "status_again")
          => StatusFields(data') = StatusFields(data)]_vars

\* two runs have passed over a batch that held the known codes 2 (now
\* "applied") and the unknown code 5
C11_Witness ==
    /\ pc = "status_again"
    /\ \E i \in 1..Len(data) :
          /\ Len(data[i].status_events) = 2
          /\ data[i].status_events[1].status = StrStatus("applied")
          /\ data[i].status_events[2].status = IntStatus(5)

\* C12: the autosave task keeps persisting for the life of the process:
\* whatever explicit saves interleave with it, it performs another save
\* again and again and never stops.  The loop of start_auto_save has no
\* other exit than an exception of save, so the task goes on for ever
\* exactly as long as its thread has not terminated: the thread is never
\* dead.
C12_AutosaveNeverStops ==
    tpc["auto"] # "dead"

(***************************************************************************)
(* JSONFile.save(mapping) followed by JSONFile.load() on the cache file    *)
(***************************************************************************)
\* the mappings handed to save: every choice of entries for three keys,
\* {} included
RoundTripMaps ==
    {Dict(m) : m \in
        UNION {[K -> {RemotePoint, GeoPoint(<<"NY">>), <<"lat0", "lon0", <<"NY">>>>}] :
                  K \in SUBSET {<<"NY">>, <<"Boston">>, <<"Remote">>}}}

\* LOCATION_CACHE.save(location_cache)
RoundTripSave ==
    /\ pc = "rt_save"
    /\ SaveWhole(location_cache)
    /\ pc' = "rt_load"
    /\ UNCHANGED <<locVars, batchVars, fileVars, procVars, threadVars,
                   moreVars>>

\* LOCATION_CACHE.load(): an absent file is created holding []
RoundTripLoad ==
    /\ pc = "rt_load"
    /\ IF TargetExists
       THEN /\ loaded' = CacheFileDoc
            /\ UNCHANGED <<dir, inodes>>
       ELSE /\ loaded' = EmptyList
            /\ dir' = [dir EXCEPT !.target = FreshInode(inodes)]
            /\ inodes' = Put(inodes, FreshInode(inodes), Serialize(EmptyList))
    /\ pc' = "rt_done"
    /\ UNCHANGED <<locVars, batchVars, fileVars, procVars, cacheData,
                   threadVars, atStart, caller, ipc, idata>>

\* after the import (the file holds LOCATION_CACHE.data), one caller alone
InitRoundTrip ==
    /\ pc = "rt_save"
    /\ LocIdle /\ BatchIdle /\ FilesIdle /\ ThreadsIdle /\ MoreIdle
    /\ \E doc \in CacheFilesAtStart \cup {EmptyList} :
          /\ dir = [target |-> 1, tmp |-> NoInode]
          /\ inodes = Put(<<>>, 1, Serialize(doc))
          /\ cacheData = doc
    /\ location_cache \in RoundTripMaps
    /\ item_idx = 0 /\ cands = <<>> /\ cand_idx = 0
    /\ errors = <<>> /\ geoLog = <<>>

SpecRoundTrip == InitRoundTrip /\ [][RoundTripSave \/ RoundTripLoad]_vars

\* C13: for every cache mapping with at least one entry, save(mapping)
\* followed by load() on the same path, with no other writer in between,
\* returns a mapping identical to the one saved.
C13_SaveLoadRoundTrip ==
    (pc = "rt_done" /\ DocTruthy(location_cache)) => loaded = location_cache

\* a mapping of two entries was saved over a file that held another mapping
\* and read back
C13_Witness ==
    /\ pc = "rt_done"
    /\ DOMAIN location_cache.map = {<<"NY">>, <<"Remote">>}
    /\ location_cache.map[<<"NY">>] = GeoPoint(<<"NY">>)
    /\ location_cache.map[<<"Remote">>] = RemotePoint
    /\ loaded = location_cache
    /\ Cardinality(DOMAIN inodes) = 1

(***************************************************************************)
(* The two entry points: main, and the /refresh handler, which calls       *)
(* main_without_coordinates and then hands add_coordinates_to_existing to  *)
(* the background tasks.  One call, no other writer.                       *)
(***************************************************************************)
\* data = JSONFile(from_path, auto_save=False) in main_without_coordinates
SplitLoad ==
    /\ pc = "split_start"
    /\ rawFile' = LoadFile(rawFile)
    /\ data' = LoadFile(rawFile).records
    /\ pc' = "reset"
    /\ UNCHANGED <<locVars, raised, parsedFile, procVars, storeVars, threadVars,
                   moreVars>>

\* for item in data.data: item["coordinates"] = []
SplitReset ==
    /\ pc = "reset"
    /\ data' = [i \in 1..Len(data) |-> [data[i] EXCEPT !.coordinates = <<>>]]
    /\ pc' = "status"
    /\ UNCHANGED <<locVars, raised, fileVars, procVars, storeVars, threadVars,
                   moreVars>>

\* a task added before main_without_coordinates has saved
AddTask_Early ==
    /\ pc = "save"
    /\ caller = "post_tracker_local"
    /\ caller' = "add_coordinates_to_existing"
    /\ pc' = "p2_load"
    /\ UNCHANGED <<locVars, batchVars, fileVars, procVars, storeVars, threadVars,
                   loaded, atStart, ipc, idata>>

\* background_tasks.add_task(add_coordinates_to_existing, parsed_path), run
\* once main_without_coordinates has returned
AddTask ==
    /\ pc = "done"
    /\ caller = "post_tracker_local"
    /\ caller' = "add_coordinates_to_existing"
    /\ pc' = "p2_load"
    /\ UNCHANGED <<locVars, batchVars, fileVars, procVars, storeVars, threadVars,
                   loaded, atStart, ipc, idata>>

\* data = JSONFile(parsed_path, auto_save=False)
PhaseTwoLoad ==
    /\ pc = "p2_load"
    /\ parsedFile' = LoadFile(parsedFile)
    /\ data' = LoadFile(parsedFile).records
    /\ pc' = "proc_load"
    /\ UNCHANGED <<locVars, raised, rawFile, procVars, storeVars, threadVars,
                   moreVars>>

\* JSONFile(parsed_path, auto_save=False).save(data.data)
PhaseTwoSave ==
    /\ pc = "p2_save"
    /\ parsedFile' = SaveFile(parsedFile, data)
    /\ pc' = "p2_done"
    /\ UNCHANGED <<locVars, batchVars, rawFile, procVars, storeVars, threadVars,
                   moreVars>>

\* a record from which the key k is missing
Without(r, k) ==
    [f \in DOMAIN r \ {k} |-> r[f]]

\* the records of a call: a remote one, one with two candidates, one whose
\* period code is not in hour_map, one without job_posting_location and one
\* without salary_period
CallRecords(id) ==
    { MkRecord(id, <<"Remote">>, OneEvent, Num(45), Num(90), 2),
      MkRecord(id, <<"NY", "|", "Boston">>, OneEvent, Num(45), Num(90), 2),
      MkRecord(id, <<"NY">>, OneEvent, Num(90), None, MaxPeriod),
      Without(MkRecord(id, <<"NY">>, OneEvent, Num(45), Num(90), 2),
              "job_posting_location"),
      Without(MkRecord(id, <<"NY">>, OneEvent, None, None, 2), "salary_period") }

CallBatches ==
    {<<>>} \cup {<<r>> : r \in CallRecords(1)}
           \cup {<<r, r2>> : r \in CallRecords(1), r2 \in CallRecords(2)}

\* the module is imported (the cache file exists and is LOCATION_CACHE.data),
\* the raw file is written, and main or the handler is about to process it
InitCalls ==
    /\ LocIdle /\ ThreadsIdle
    /\ data = <<>> /\ raised = "none"
    /\ rawFile \in {FileOf(b) : b \in CallBatches}
    /\ parsedFile \in {AbsentFile, FileOf(<<OldRecord>>)}
    /\ \E doc \in CacheFilesAtStart \cup {EmptyList} :
          /\ dir = [target |-> 1, tmp |-> NoInode]
          /\ inodes = Put(<<>>, 1, Serialize(doc))
          /\ cacheData = doc
          /\ atStart = [parsed |-> parsedFile, cache |-> doc]
    /\ location_cache = EmptyList
    /\ item_idx = 0 /\ cands = <<>> /\ cand_idx = 0
    /\ errors = <<>> /\ geoLog = <<>>
    /\ loaded = EmptyList
    /\ ipc = [i \in Invocations |-> "off"]
    /\ idata = [i \in Invocations |-> <<>>]
    /\ \/ caller = "main" /\ pc = "start"
       \/ caller = "post_tracker_local" /\ pc = "split_start"

NextCalls ==
    \/ MainLoad
    \/ SplitLoad
    \/ SplitReset
    \/ MainStatus
    \/ MainSalary
    \/ MainSave
    \/ AddTask
    \/ PhaseTwoLoad
    \/ ProcLoad
    \/ ProcItem
    \/ ProcCand
    \/ ProcSave
    \/ PhaseTwoSave

SpecCalls == InitCalls /\ [][NextCalls]_vars

\* the positions inside AddCoordinates(data)
Resolving(p) ==
    p \in {"proc_load", "item", "cand", "proc_save"}

\* the place of a position in the order of the steps of its call: in main
\* load, resolve, statuses, salaries, save; in the handler load, reset,
\* statuses, salaries, save, then the task's load, resolve, save
StepRank(p, c) ==
    IF c = "add_coordinates_to_existing"
    THEN CASE p = "p2_load" -> 7
           [] Resolving(p) -> 8
           [] p = "p2_save" -> 9
           [] OTHER -> 10
    ELSE CASE p \in {"start", "split_start"} -> 1
           [] Resolving(p) \/ p = "reset" -> 2
           [] p = "status" -> 3
           [] p = "salary" -> 4
           [] p = "save" -> 5
           [] OTHER -> 6

\* C14: in one call of main the steps occur strictly in the order load,
\* resolve locations, normalize statuses, normalize salaries, save; in one
\* call of the /refresh handler phase 1 runs load, reset coordinates,
\* normalize statuses, normalize salaries, save, and the load of phase 2
\* happens only after the save of phase 1 has completed (the file it reads
\* is the one that save wrote).
C14_PassOrder ==
    [][/\ (pc' # pc /\ pc' \notin {"raised", "p2_logged"})
            => \/ StepRank(pc', caller') = StepRank(pc, caller) + 1
               \/ Resolving(pc) /\ Resolving(pc') /\ caller' = caller
       /\ Resolving(pc) => caller # "post_tracker_local"
       /\ pc = "reset" => caller = "post_tracker_local"
       /\ pc = "p2_load" => parsedFile = SaveFile(atStart.parsed, data)]_vars

\* the handler's call has run both phases over two records, and the second
\* phase resolved a candidate of each
C14_Witness ==
    /\ pc = "p2_done"
    /\ caller = "add_coordinates_to_existing"
    /\ Len(parsedFile.records) = 2
    /\ \A i \in 1..2 : /\ parsedFile.records[i].coordinates # <<>>
                       /\ parsedFile.records[i].salary = Num(1)
                       /\ parsedFile.records[i].status_events[1].status
                             = StrStatus("saved")

\* C16: when a pass raises a fatal error during main or
\* main_without_coordinates, the parsed file is left exactly as it was
\* before the call (not created, truncated or partially updated); when
\* add_coordinates_to_existing fails before its save, it returns normally
\* (the error is only logged) and the parsed file still holds what phase 1
\* saved.
C16_FailureLeavesParsedFile ==
    [][/\ pc' = "raised" => parsedFile' = atStart.parsed
       /\ (caller = "add_coordinates_to_existing" /\ pc' # "p2_done")
             => (parsedFile' = parsedFile /\ pc' # "raised")]_vars

\* the task failed on the second record after it had resolved the first in
\* memory: the file still holds the two records of phase 1, without
\* coordinates
C16_Witness ==
    /\ pc = "p2_logged"
    /\ raised = "KeyError"
    /\ Len(parsedFile.records) = 2
    /\ parsedFile.records[1].coordinates = <<>>
    /\ parsedFile.records[1].salary = Num(1)
    /\ data[1].coordinates # <<>>

\* the candidate of the step the inner loop is about to take, trimmed
CandKey == Strip(cands[cand_idx])

\* an earlier candidate of this run with the same trimmed string resolved
\* through the geocoder or was found in the cache
ResolvedBefore(key) ==
    \E j \in 1..Len(geoLog) :
        Strip(geoLog[j].loc) = key /\ geoLog[j].kind \in {"match", "hit"}

\* C15: within an enrichment run the geocoder is invoked only for a
\* candidate that does not contain "remote" and has no entry in the run's
\* cache at that moment; every geocoder invocation is immediately preceded
\* by the courtesy delay; a candidate string that has resolved is never
\* geocoded again in the run (later occurrences reuse the cached point); a
\* failed candidate is not added to the cache.
C15_CacheFirstLookup ==
    [][(pc = "cand" /\ cand_idx <= Len(cands)) =>
        LET e == geoLog'[Len(geoLog')]
        IN  /\ e.called <=> (\E k \in 1..Len(e.events) : e.events[k] = "geocode")
            /\ e.called =>
                  /\ ~Contains(Lower(CandKey), <<"remote">>)
                  /\ location_cache.isDict
                  /\ CandKey \notin DOMAIN location_cache.map
            /\ \A k \in 1..Len(e.events) :
                  e.events[k] = "geocode" => (k > 1 /\ e.events[k - 1] = "sleep")
            /\ ResolvedBefore(CandKey) =>
                  /\ ~e.called
                  /\ data'[item_idx].coordinates
                        = Append(data[item_idx].coordinates,
                                 location_cache.map[CandKey])
            /\ e.kind \in {"nomatch", "raise"} => location_cache' = location_cache
       ]_vars

\* NY was geocoded for the first record, Boston failed, and the NY of the
\* second record was taken from the cache; Boston is not in the cache
C15_Witness ==
    /\ Len(geoLog) = 3
    /\ geoLog[1].kind = "match" /\ geoLog[1].events = CallEvents
    /\ geoLog[2].kind = "nomatch" /\ geoLog[2].loc = <<"Boston">>
    /\ geoLog[3].kind = "hit" /\ geoLog[3].loc = geoLog[1].loc
    /\ geoLog[3].item = 2 /\ geoLog[3].events = <<>>
    /\ <<"Boston">> \notin DOMAIN location_cache.map

(***************************************************************************)
(* main(from_path, to_path) as a function of the files, the cache and the  *)
(* answers of the geocoder                                                 *)
(***************************************************************************)
RECURSIVE ResolveCandidates(_, _, _, _, _)
\* the inner loop of AddCoordinates.process over the candidates cs of one
\* record; outs are the answers the geocoder gives to the calls still to
\* come, in order
ResolveCandidates(cs, k, cache, outs, coords) ==
    IF k > Len(cs)
    THEN [cache |-> cache, outs |-> outs, coords |-> coords]
    ELSE LET r == get_coord(cs[k], cache, IF outs = <<>> THEN "raise" ELSE Head(outs))
         IN  ResolveCandidates(cs, k + 1, r.cache,
                               IF r.called /\ outs # <<>> THEN Tail(outs) ELSE outs,
                               IF r.ok THEN Append(coords, r.point) ELSE coords)

RECURSIVE ResolveRecords(_, _, _, _)
\* the outer loop: a record without job_posting_location raises KeyError
ResolveRecords(d, i, cache, outs) ==
    IF i > Len(d)
    THEN [data |-> d, cache |-> cache, raised |-> "none"]
    ELSE IF "job_posting_location" \notin DOMAIN d[i]
    THEN [data |-> d, cache |-> cache, raised |-> "KeyError"]
    ELSE LET r == ResolveCandidates(get_all_locations(d[i].job_posting_location),
                                    1, cache, outs, <<>>)
         IN  ResolveRecords([d EXCEPT ![i].coordinates = r.coords], i + 1,
                            r.cache, r.outs)

\* the parsed file main leaves, and whether main raised
MainResult(raw, parsed, cache, outs) ==
    LET resolved == ResolveRecords(LoadFile(raw).records, 1, cache, outs)
        salaried == ProcessSalaryProcess(StatusEventsProcess(resolved.data))
    IN  IF resolved.raised # "none"
        THEN [file |-> parsed, raised |-> resolved.raised]
        ELSE IF salaried.raised # "none"
        THEN [file |-> parsed, raised |-> salaried.raised]
        ELSE [file |-> SaveFile(parsed, salaried.data), raised |-> "none"]

\* the answers the geocoder gave in this run, call by call
GeocoderAnswers ==
    LET calls == SelectSeq(geoLog, LAMBDA e : e.called)
    IN  [j \in 1..Len(calls) |-> calls[j].kind]

\* C17: the split pipeline refines the full one: for every raw record set,
\* starting cache and geocoder behaviour, main_without_coordinates followed
\* by add_coordinates_to_existing, run to completion with no other writer,
\* leaves the parsed file (count, order, status, salary and coordinates of
\* every record) equal to what main leaves on the same input.
C17_SplitRefinesFull ==
    (pc = "p2_done" /\ caller = "add_coordinates_to_existing")
        => parsedFile = MainResult(rawFile, atStart.parsed, atStart.cache,
                                   GeocoderAnswers).file

(***************************************************************************)
(* Two /refresh invocations of one user.  The body of the handler runs on  *)
(* the event loop without an await between the write of raw.json and       *)
(* add_task, so the two phase 1 runs follow one another; each task         *)
(* add_coordinates_to_existing runs in a worker thread of its own.         *)
(***************************************************************************)
\* main_without_coordinates(raw, parsed): the parsed file it leaves
MainWithoutCoordinates(raw, parsed) ==
    LET loadedData == LoadFile(raw).records
        reset == [i \in 1..Len(loadedData) |->
                     [loadedData[i] EXCEPT !.coordinates = <<>>]]
        salaried == ProcessSalaryProcess(StatusEventsProcess(reset))
    IN  IF salaried.raised # "none" THEN parsed ELSE SaveFile(parsed, salaried.data)

\* what fetch_all_results returned to an invocation: one or two records
SnapshotRecords(id) ==
    { MkRecord(id, <<"NY">>, OneEvent, Num(45), Num(90), 2),
      MkRecord(id, <<"Remote">>,
               <<[status |-> IntStatus(2), timestamp |-> 102]>>,
               Num(90), None, 1) }

Snapshots ==
    {<<r>> : r \in SnapshotRecords(1)}
        \cup {<<r, r2>> : r \in SnapshotRecords(1), r2 \in SnapshotRecords(2)}

\* json.dump(results) into raw.json, main_without_coordinates, add_task
Refresh(i) ==
    /\ ipc[i] = "off"
    /\ i = "newer" => ipc["older"] # "off"
    /\ \E results \in Snapshots :
          /\ rawFile' = FileOf(results)
          /\ parsedFile' = MainWithoutCoordinates(FileOf(results), parsedFile)
    /\ ipc' = [ipc EXCEPT ![i] = "queued"]
    /\ UNCHANGED <<pc, locVars, batchVars, procVars, storeVars, threadVars,
                   loaded, atStart, caller, idata>>

\* the task: data = JSONFile(parsed_path, auto_save=False)
TaskLoad(i) ==
    /\ ipc[i] = "queued"
    /\ parsedFile' = LoadFile(parsedFile)
    /\ idata' = [idata EXCEPT ![i] = LoadFile(parsedFile).records]
    /\ ipc' = [ipc EXCEPT ![i] = "loaded"]
    /\ UNCHANGED <<pc, locVars, batchVars, rawFile, procVars, storeVars,
                   threadVars, loaded, atStart, caller>>

\* the task: AddCoordinates(data), with the geocoder giving one answer to
\* every call; the cache is loaded, filled and saved
TaskResolve(i) ==
    /\ ipc[i] = "loaded"
    /\ \E geo \in GeoOutcomes :
          LET r == ResolveRecords(idata[i], 1, CacheFileDoc,
                                  [k \in 1..Len(idata[i]) |-> geo])
          IN  /\ idata' = [idata EXCEPT ![i] = r.data]
              /\ SaveWhole(r.cache)
    /\ ipc' = [ipc EXCEPT ![i] = "resolved"]
    /\ UNCHANGED <<pc, locVars, batchVars, fileVars, procVars, threadVars,
                   loaded, atStart, caller>>

\* the task: JSONFile(parsed_path, auto_save=False).save(data.data)
TaskSave(i) ==
    /\ ipc[i] = "resolved"
    /\ parsedFile' = SaveFile(parsedFile, idata[i])
    /\ ipc' = [ipc EXCEPT ![i] = "finished"]
    /\ UNCHANGED <<pc, locVars, batchVars, rawFile, procVars, storeVars,
                   threadVars, loaded, atStart, caller, idata>>

InitOverlap ==
    /\ pc = "overlap"
    /\ LocIdle /\ BatchIdle /\ ProcIdle /\ ThreadsIdle
    /\ rawFile = AbsentFile
    /\ parsedFile \in {AbsentFile, FileOf(<<OldRecord>>)}
    /\ \E doc \in CacheFilesAtStart :
          /\ dir = [target |-> 1, tmp |-> NoInode]
          /\ inodes = Put(<<>>, 1, Serialize(doc))
          /\ cacheData = doc
          /\ atStart = [parsed |-> parsedFile, cache |-> doc]
    /\ loaded = EmptyList
    /\ caller = "post_tracker_local"
    /\ ipc = [i \in Invocations |-> "off"]
    /\ idata = [i \in Invocations |-> <<>>]

NextOverlap ==
    \/ \E i \in Invocations : Refresh(i)
    \/ \E i \in Invocations : TaskLoad(i)
    \/ \E i \in Invocations : TaskResolve(i)
    \/ \E i \in Invocations : TaskSave(i)

SpecOverlap == InitOverlap /\ [][NextOverlap]_vars

\* a record list with the coordinates left out of the comparison
WithoutCoordinates(d) ==
    [i \in 1..Len(d) |-> [d[i] EXCEPT !.coordinates = <<>>]]

\* C18: when two invocations of the handler for one user overlap, a
\* background coordinate phase never overwrites a newer phase 1 result with
\* older records: once all phases of both invocations have finished, the
\* parsed file holds the record set of the most recently completed phase 1
\* (raw.json holds that snapshot), enriched with coordinates.
C18_NoStaleOverwrite ==
    (\A i \in Invocations : ipc[i] = "finished")
        => WithoutCoordinates(parsedFile.records)
              = MainWithoutCoordinates(rawFile, AbsentFile).records

====
